---- MODULE Spec2Model ----
(***************************************************************************)
(* Payment disbursement scheduler: the Dispatch Engine (PaymentService,    *)
(* services/payment.js) and the Job Scheduler (SchedulerService,           *)
(* services/scheduler.js) with the control surface that drives them        *)
(* (controllers/payment.controller.js).                                    *)
(*                                                                         *)
(* Node.js runs one callback at a time, so every action below is one       *)
(* synchronous segment of a handler: from its entry, or from the           *)
(* resumption of an await, up to the next await on I/O or on a timer.      *)
(***************************************************************************)
EXTENDS Integers, Sequences, FiniteSets, TLC

\* ------------------------------------------------------------------ bounds
MaxClients == 3        \* longest client list handed to one engine run
MaxBatchSize == 2      \* largest batch size handed to one engine run
MaxJobs == 2           \* job ids the scheduler may hand out
MaxJobClients == 1     \* longest client list the client source returns
MaxFaults == 1         \* payment requests the gateway fails while jobs run
MaxPending == 2        \* writes of the scheduler_state row in flight at once

\* ------------------------------------------------------- program constants
maxRetries == 3
defaultBatchSize == 10
defaultIntervalHours == 4

Jobs == 1..MaxJobs
NoJob == 0
NoResult == [pending |-> TRUE]
NoRecord == [status |-> "none"]
NoRow == [row |-> FALSE]
NoSettings == [enabled |-> FALSE, intervalHours |-> 0, batchSize |-> 0]

VARIABLES
  stats,          \* PaymentService.stats (the counters the claims read)
  failedQueue,    \* PaymentService.failedQueue
  pc,             \* per job: where its handler is suspended
  run,            \* per job: the locals of its processClients call
  events,         \* per job: the events PaymentService emitted for it
  scheduledTask,  \* SchedulerService.scheduledTask is armed
  settings,       \* SchedulerService.settings
  dbState,        \* the scheduler_state row
  currentJob,     \* SchedulerService.currentJob (a job id or NoJob)
  runningJobs,    \* keys of SchedulerService.runningJobs, in insertion order
  isScheduled,    \* per job: isScheduled of the job object
  jobStore,       \* per job: its processing_jobs row
  stopAllPc,      \* where stopAllJobs is suspended
  stopAllJob,     \* the job id stopAllJobs passed to its pending update
  stopAllSeen,    \* the entries of runningJobs the loop of stopAllJobs has visited
  response,       \* the answer the control surface gave in the last step, if any
  lastEvent,      \* the event SchedulerService emitted in the last step, if any
  nextJobId,      \* the next job id uuidv4 hands out
  jobError,       \* per job: the error its catch block is handling
  startPc,        \* where startScheduler is suspended
  saves,          \* saveSchedulerState calls whose write has not landed
  faults,         \* payment requests the gateway will still fail
  tokenDown,      \* AuthService.fetchToken throws on every call
  cronExpression, \* the interval hours the armed task was scheduled with, or 0
  liveTasks,      \* node-cron tasks scheduled and not stopped
  isInitialized   \* SchedulerService.isInitialized; the verification interval runs

vars == <<stats, failedQueue, pc, run, events, scheduledTask, settings,
          dbState, currentJob, runningJobs, isScheduled, jobStore,
          stopAllPc, stopAllJob, stopAllSeen, response, lastEvent, nextJobId, jobError,
          startPc, saves, faults, tokenDown, cronExpression, liveTasks, isInitialized>>

engineVars == <<stats, failedQueue, pc, run, events, faults, tokenDown, isInitialized>>
schedVars == <<scheduledTask, cronExpression, liveTasks, settings, dbState, currentJob, runningJobs,
               isScheduled, stopAllPc, stopAllJob, stopAllSeen, nextJobId, jobError,
               startPc, saves>>

\* ----------------------------------------------------------------- helpers
Max(a, b) == IF a >= b THEN a ELSE b
Min(a, b) == IF a <= b THEN a ELSE b

\* Math.ceil(a / b) for a >= 0, b >= 1
Ceil(a, b) == (a + b - 1) \div b

\* a splice that hands over the first removed item only
SpliceTakenFirst(s, n) == SubSeq(s, 1, Min(Max(n, 0), Min(1, Len(s))))

\* Array.prototype.splice(0, n): the removed prefix; a negative n removes nothing
SpliceTaken(s, n) == SubSeq(s, 1, Min(Max(n, 0), Len(s)))
SpliceRest(s, n) == SubSeq(s, Min(Max(n, 0), Len(s)) + 1, Len(s))

\* r.success of an outcome; an outcome still pending has none
IsSuccess(r) == "success" \in DOMAIN r /\ r.success

\* batchResults.filter(r => r.success).length
CountSuccess(s) == Cardinality({i \in 1..Len(s) : IsSuccess(s[i])})

\* batchResults.filter(r => !r.success).length
CountFailed(s) == Cardinality({i \in 1..Len(s) : ~IsSuccess(s[i])})

\* ---------------------------------------------------------- PaymentService
\* counters that start from a request already counted
resetStatsOffByOne == [totalRequests |-> 1, successful |-> 1, failed |-> 0, retried |-> 0]

\* resetStats(): every counter the claims read is set to 0
resetStats == [totalRequests |-> 0, successful |-> 0, failed |-> 0, retried |-> 0]

getStats(st) ==
  [totalRequests |-> st.totalRequests,
   successful |-> st.successful,
   failed |-> st.failed,
   retried |-> st.retried,
   permanentFailures |-> IF st.failed - st.retried >= 0
                         THEN st.failed - st.retried ELSE 0]

\* the clients the client source returns: distinct msisdn, no retryCount yet
\* (client.retryCount || 0 and client.retryCount > 0 both read undefined as 0)
ClientList(n) == [i \in 1..n |-> [msisdn |-> i, retryCount |-> 0]]

\* processBatchParallel: const isRetry = client.retryCount > 0
IsRetry(client) == client.retryCount > 0

\* processSinglePayment, try branch
StatsOnSuccess(st, isRetry) ==
  [st EXCEPT !.totalRequests = @ + 1,
             !.successful = @ + 1,
             !.retried = IF isRetry THEN @ + 1 ELSE @]

StatsOnFailureUncounted(st) ==
  [st EXCEPT !.failed = @ + 1]

\* processSinglePayment, catch branch
StatsOnFailure(st) ==
  [st EXCEPT !.totalRequests = @ + 1, !.failed = @ + 1]

WillRetryAtCap(retryCount) == retryCount <= maxRetries
WillRetry(retryCount) == retryCount < maxRetries

\* a requeued client that keeps its retry counter
ClientForRetryUncounted(client) == client

\* processSinglePayment: clientForRetry = {...client, retryCount: retryCount + 1}
ClientForRetry(client) == [client EXCEPT !.retryCount = @ + 1]

\* a retry queue that takes every client below the cap, whatever its outcome
FailedQueueAfterAnyOutcome(fq, client, ok) ==
  IF WillRetry(client.retryCount)
  THEN Append(fq, ClientForRetry(client))
  ELSE fq

\* processSinglePayment, catch branch: failedQueue.push(clientForRetry)
FailedQueueAfter(fq, client, ok) ==
  IF ~ok /\ WillRetry(client.retryCount)
  THEN Append(fq, ClientForRetry(client))
  ELSE fq

Outcome(client, ok) ==
  IF ok
  THEN [success |-> TRUE, msisdn |-> client.msisdn, isRetry |-> IsRetry(client)]
  ELSE [success |-> FALSE, msisdn |-> client.msisdn,
        retryCount |-> client.retryCount,
        willRetry |-> WillRetry(client.retryCount),
        isRetry |-> IsRetry(client)]

RegularCountNoFloor(batchSize, queued) == batchSize - queued
\* processClients: allClients.splice(0, Math.max(1, batchSize - failedQueue.length))
RegularCount(batchSize, queued) == Max(1, batchSize - queued)

RetryCountWhole(batchSize, regularLen) == batchSize
\* processClients: failedQueue.splice(0, batchSize - regularBatch.length)
RetryCount(batchSize, regularLen) == batchSize - regularLen

NextBatchIndexStuck(batchIndex) == batchIndex
NextBatchIndex(batchIndex) == batchIndex + 1

AllSettledButOne(inflight, batchIndex) ==
  Cardinality({d \in inflight : d.batch = batchIndex}) <= 1
\* Promise.allSettled(batchPromises): resolves once no dispatch of the batch is pending
AllSettled(inflight, batchIndex) ==
  \A d \in inflight : d.batch # batchIndex

MoreWorkFailFast(allClients, fq) == Len(allClients) > 0 /\ Len(fq) = 0
\* while (allClients.length > 0 || this.failedQueue.length > 0)
MoreWork(allClients, fq) == Len(allClients) > 0 \/ Len(fq) > 0

ProcessingStarted(clients, batchSize) ==
  [type |-> "processingStarted", totalClients |-> Len(clients),
   totalBatches |-> Ceil(Len(clients), batchSize), batchSize |-> batchSize]

BatchStarted(batchIndex, size, retryCount) ==
  [type |-> "batchStarted", batchIndex |-> batchIndex, batchSize |-> size,
   retryCount |-> retryCount]

BatchCompleted(batchIndex, batchResults, queued) ==
  [type |-> "batchCompleted", batchIndex |-> batchIndex,
   batchSize |-> Len(batchResults),
   successfulInBatch |-> CountSuccess(batchResults),
   failedInBatch |-> CountFailed(batchResults),
   queuedForRetry |-> Len(queued)]

ProcessingCompleted(clients, st) ==
  [type |-> "processingCompleted", totalClients |-> Len(clients),
   stats |-> getStats(st)]

\* processClients after the while loop: emit processingCompleted and return
Finish(r, evs, fq, st) ==
  [run |-> r, events |-> Append(evs, ProcessingCompleted(r.clients, st)),
   failedQueue |-> fq, pc |-> "returned"]

\* processClients, one pass from the while test to the await on the batch
Iterate(r, evs, fq, st) ==
  IF ~MoreWork(r.allClients, fq)
  THEN Finish(r, evs, fq, st)
  ELSE
    LET batchIndex == NextBatchIndex(r.batchIndex)
        nRegular == RegularCount(r.batchSize, Len(fq))
        regularBatch == SpliceTaken(r.allClients, nRegular)
        nRetry == RetryCount(r.batchSize, Len(regularBatch))
        retryBatch == SpliceTaken(fq, nRetry)
        currentBatch == regularBatch \o retryBatch
        r1 == [r EXCEPT !.batchIndex = batchIndex,
                        !.allClients = SpliceRest(r.allClients, nRegular)]
        fq1 == SpliceRest(fq, nRetry)
    IN IF Len(currentBatch) = 0
       THEN Finish(r1, evs, fq1, st)
       ELSE
         [run |-> [r1 EXCEPT
                     !.currentBatch = currentBatch,
                     !.batchResults = [i \in 1..Len(currentBatch) |-> NoResult],
                     !.inflight = r.inflight \cup
                        {[batch |-> batchIndex, pos |-> i, client |-> currentBatch[i]]
                           : i \in 1..Len(currentBatch)}],
          events |-> Append(evs, BatchStarted(batchIndex, Len(currentBatch), Len(retryBatch))),
          failedQueue |-> fq1,
          pc |-> "batch"]

\* a step in which the control surface answers nothing and no scheduler event is emitted
Quiet == response' = "none" /\ lastEvent' = "none"

\* SchedulerService onBatchCompleted listener: the progress write of the job row
ProgressRow(row, batchIndex, batchSize, st) ==
  IF row = NoRecord THEN row
  ELSE [row EXCEPT !.processed = batchIndex * batchSize,
                   !.successful = getStats(st).successful,
                   !.failed = getStats(st).failed]

\* processClients(clients, batchSize, jobId) from its first statement to its
\* first await: reset of stats and failedQueue, processingStarted, first batch
StartRun(j, r) ==
  LET r0 == [r EXCEPT !.allClients = r.clients, !.batchIndex = 0, !.results = <<>>]
      evs == Append(events[j], ProcessingStarted(r0.clients, r0.batchSize))
      n == Iterate(r0, evs, <<>>, resetStats)
  IN /\ stats' = resetStats
     /\ failedQueue' = n.failedQueue
     /\ run' = [run EXCEPT ![j] = n.run]
     /\ events' = [events EXCEPT ![j] = n.events]
     /\ pc' = [pc EXCEPT ![j] = n.pc]

\* processClients(clients, batchSize, jobId) up to its first await
ProcessClients(j) ==
  /\ pc[j] = "process"
  /\ StartRun(j, run[j])
  /\ Quiet
  /\ UNCHANGED <<schedVars, jobStore, faults, tokenDown, isInitialized>>

\* processClients resumes after the inter-batch delay
AfterDelay(j) ==
  /\ pc[j] = "delay"
  /\ LET n == Iterate(run[j], events[j], failedQueue, stats)
     IN /\ failedQueue' = n.failedQueue
        /\ run' = [run EXCEPT ![j] = n.run]
        /\ events' = [events EXCEPT ![j] = n.events]
        /\ pc' = [pc EXCEPT ![j] = n.pc]
  /\ Quiet
  /\ UNCHANGED <<stats, schedVars, jobStore, faults, tokenDown, isInitialized>>

\* one dispatch of the batch settles (processSinglePayment returns); when it is
\* the last one, Promise.allSettled resolves and processClients runs on to the
\* inter-batch delay or to its return
Settle(j, d, ok) ==
  /\ pc[j] = "batch"
  /\ d \in run[j].inflight
  /\ ok => ~tokenDown
  /\ ok \/ tokenDown \/ faults > 0
  /\ faults' = IF ok \/ tokenDown THEN faults ELSE faults - 1
  /\ UNCHANGED <<tokenDown, isInitialized>>
  /\ LET r == run[j]
         st1 == IF ok THEN StatsOnSuccess(stats, IsRetry(d.client))
                      ELSE StatsOnFailure(stats)
         fq1 == FailedQueueAfter(failedQueue, d.client, ok)
         br1 == IF d.batch = r.batchIndex
                THEN [r.batchResults EXCEPT ![d.pos] = Outcome(d.client, ok)]
                ELSE r.batchResults
         r1 == [r EXCEPT !.inflight = @ \ {d}, !.batchResults = br1]
     IN /\ stats' = st1
        /\ IF AllSettled(r1.inflight, r.batchIndex)
           THEN LET r2 == [r1 EXCEPT !.results = @ \o br1]
                    evs == Append(events[j], BatchCompleted(r.batchIndex, br1, fq1))
                    n == IF MoreWork(r.allClients, fq1)
                         THEN [run |-> r2, events |-> evs, failedQueue |-> fq1,
                               pc |-> "delay"]
                         ELSE Finish(r2, evs, fq1, st1)
                IN /\ failedQueue' = n.failedQueue
                   /\ run' = [run EXCEPT ![j] = n.run]
                   /\ events' = [events EXCEPT ![j] = n.events]
                   /\ pc' = [pc EXCEPT ![j] = n.pc]
                   /\ jobStore' = [jobStore EXCEPT ![j] =
                                     ProgressRow(@, r.batchIndex,
                                       IF isScheduled[j] THEN settings.batchSize
                                       ELSE r.batchSize, st1)]
           ELSE /\ failedQueue' = fq1
                /\ run' = [run EXCEPT ![j] = r1]
                /\ UNCHANGED <<events, pc, jobStore>>
  /\ Quiet
  /\ UNCHANGED schedVars

\* --------------------------------------------------- one engine run, alone
NewRun(n, b) ==
  [clients |-> ClientList(n), batchSize |-> b, allClients |-> <<>>,
   batchIndex |-> 0, currentBatch |-> <<>>, batchResults |-> <<>>,
   inflight |-> {}, results |-> <<>>]

IdleRun == NewRun(0, 0)

\* the scheduler as its constructor leaves it, and no job yet
InitMemory ==
  /\ scheduledTask = FALSE
  /\ cronExpression = 0
  /\ liveTasks = 0
  /\ settings = [enabled |-> FALSE, intervalHours |-> defaultIntervalHours,
                 batchSize |-> defaultBatchSize]
  /\ jobError = [j \in Jobs |-> "none"]
  /\ startPc = "idle"
  /\ saves = {}
  /\ currentJob = NoJob
  /\ runningJobs = <<>>
  /\ isScheduled = [j \in Jobs |-> FALSE]
  /\ jobStore = [j \in Jobs |-> NoRecord]
  /\ stopAllPc = "idle"
  /\ stopAllJob = NoJob
  /\ stopAllSeen = {}
  /\ response = "none"
  /\ lastEvent = "none"

\* after initialize() found no scheduler_state row
InitScheduler ==
  /\ InitMemory
  /\ dbState = NoRow
  /\ isInitialized = TRUE

\* processClients(clients, batchSize, jobId) is about to be called on a fresh
\* PaymentService with a list of 0..MaxClients clients
InitEngine ==
  /\ InitScheduler
  /\ nextJobId = 2
  /\ faults = MaxClients * (maxRetries + 1)
  /\ tokenDown = FALSE
  /\ stats = resetStats
  /\ failedQueue = <<>>
  /\ \E n \in 0..MaxClients, b \in 1..MaxBatchSize :
       run = [j \in Jobs |-> IF j = 1 THEN NewRun(n, b) ELSE IdleRun]
  /\ pc = [j \in Jobs |-> IF j = 1 THEN "process" ELSE "idle"]
  /\ events = [j \in Jobs |-> <<>>]

NextEngine ==
  \/ \E j \in Jobs : ProcessClients(j)
  \/ \E j \in Jobs : AfterDelay(j)
  \/ \E j \in Jobs : \E d \in run[j].inflight : \E ok \in BOOLEAN : Settle(j, d, ok)

SpecEngine == InitEngine /\ [][NextEngine]_vars

\* ------------------------------------------------- what a run has done so far
\* processClients of job j has returned
Returned(j) == pc[j] = "returned"

Msisdns(j) == 1..Len(run[j].clients)

OutcomesOf(j, m) == {i \in 1..Len(run[j].results) : run[j].results[i].msisdn = m}
SuccessesOf(j, m) == {i \in OutcomesOf(j, m) : run[j].results[i].success}
FailuresOf(j, m) == {i \in OutcomesOf(j, m) : ~run[j].results[i].success}

\* dispatch attempts made for client m: the recorded outcomes and the batch in flight
Dispatched(j, m) ==
  Cardinality(OutcomesOf(j, m)) +
  (IF pc[j] = "batch"
   THEN Cardinality({i \in 1..Len(run[j].currentBatch) : run[j].currentBatch[i].msisdn = m})
   ELSE 0)

\* client m used its whole retry budget and never succeeded
Exhausted(j, m) ==
  SuccessesOf(j, m) = {} /\ Cardinality(FailuresOf(j, m)) = maxRetries + 1

EventsOfType(j, t) == {i \in 1..Len(events[j]) : events[j][i].type = t}

\* the statistics snapshot carried by processingCompleted
FinalStats(j) == events[j][Len(events[j])].stats

RECURSIVE SumBatchOutcomes(_)
SumBatchOutcomes(evs) ==
  IF Len(evs) = 0 THEN 0
  ELSE (IF evs[1].type = "batchCompleted"
        THEN evs[1].successfulInBatch + evs[1].failedInBatch ELSE 0)
       + SumBatchOutcomes(Tail(evs))

\* -------------------------------------------------------- SchedulerService
\* inputs of the control surface
IntervalInputs == {0, defaultIntervalHours, 6}
BatchSizeInputs == {4, defaultBatchSize}

\* PaymentController: if (hours < 1 || hours > 12) reject
ValidInterval(hours) == hours >= 1 /\ hours <= 12

\* a check of the upper limit alone
ValidBatchSizeNoFloor(size) == size <= 100

\* PaymentController: if (size < 5 || size > 100) reject
ValidBatchSize(size) == size >= 5 /\ size <= 100

\* a saveSchedulerState(this.settings) call: it holds the settings object and
\* reads it when its INSERT is executed
SaveOf(owner) == [owner |-> owner, live |-> TRUE, snap |-> NoSettings]

\* the values a pending save writes
Written(s) == IF s.live THEN settings ELSE s.snap

\* this.settings = {...}: pending saves keep the object they were given
Detach(ss, old) ==
  {[owner |-> s.owner, live |-> FALSE, snap |-> IF s.live THEN old ELSE s.snap] : s \in ss}

\* getStatus: actualEnabled, read from the scheduler_state row when there is one
ActualEnabled == IF dbState = NoRow THEN settings.enabled ELSE dbState.enabled

\* a delete that leaves the entry in the map
MapDeleteNothing(map, key) == map
\* Map.prototype.delete
MapDelete(map, key) == SelectSeq(map, LAMBDA k : k # key)

\* the cron callback's guard: this.currentJob && this.currentJob.status === 'running'
\* (a job object is 'running' for as long as currentJob refers to it)
PreviousJobRunning == currentJob # NoJob

RunningRow ==
  [status |-> "running", processed |-> 0, successful |-> 0, failed |-> 0,
   error |-> "none"]

\* updateProcessingJob(jobId, {status: 'failed', error_message}): UPDATE ... WHERE job_id
FailedRow(row, message) ==
  IF row = NoRecord THEN row ELSE [row EXCEPT !.status = "failed", !.error = message]

\* updateProcessingJob(jobId, {status: 'completed', processed_clients, ...})
CompletedRow(row, total, st) ==
  IF row = NoRecord THEN row
  ELSE [row EXCEPT !.status = "completed", !.processed = total,
                   !.successful = st.successful, !.failed = st.failed]

\* a stop that leaves the old task running
StopTaskKeeps(live, task) == live
\* stopScheduler: if (this.scheduledTask) this.scheduledTask.stop()
StopTask(live, task) == IF task THEN live - 1 ELSE live

\* cron.schedule(cronExpression, ...): one more task is running
ScheduleTask(live) == live + 1

\* startScheduler after await saveSchedulerState: stopScheduler(false) disarms
\* the old task and clears settings.enabled, then cron.schedule arms the new task
ArmedTask(written, hours) ==
  /\ dbState' = written
  /\ scheduledTask' = TRUE
  /\ cronExpression' = hours
  /\ liveTasks' = ScheduleTask(StopTask(liveTasks, scheduledTask))
  /\ lastEvent' = "schedulerStarted"

\* the same, with the answer of PaymentController.startScheduler
Armed(written, hours) ==
  /\ ArmedTask(written, hours)
  /\ response' = "Scheduler started successfully"

\* PaymentController.startScheduler; landed: the INSERT of saveSchedulerState is
\* executed before any other handler runs, so that startScheduler runs through
StartScheduler(hours, size, landed) ==
  /\ startPc = "idle"
  /\ IF ~ValidInterval(hours)
     THEN /\ response' = "Interval hours must be between 1 and 12"
          /\ lastEvent' = "none"
          /\ UNCHANGED <<settings, saves, startPc, dbState, scheduledTask, cronExpression, liveTasks>>
     ELSE IF ~ValidBatchSize(size)
     THEN /\ response' = "Batch size must be between 5 and 100"
          /\ lastEvent' = "none"
          /\ UNCHANGED <<settings, saves, startPc, dbState, scheduledTask, cronExpression, liveTasks>>
     ELSE IF ActualEnabled
     THEN /\ response' = "Scheduler is already running"
          /\ lastEvent' = "none"
          /\ settings' = [settings EXCEPT !.enabled = ActualEnabled]
          /\ UNCHANGED <<saves, startPc, dbState, scheduledTask, cronExpression, liveTasks>>
     ELSE LET merged == [enabled |-> TRUE, intervalHours |-> hours, batchSize |-> size]
              detached == Detach(saves, [settings EXCEPT !.enabled = ActualEnabled])
          IN IF landed
             THEN /\ Armed(merged, hours)
                  /\ settings' = [merged EXCEPT !.enabled = FALSE]
                  /\ saves' = detached
                  /\ UNCHANGED startPc
             ELSE /\ settings' = merged
                  /\ saves' = detached \cup {SaveOf("start")}
                  /\ startPc' = "saving"
                  /\ Quiet
                  /\ UNCHANGED <<dbState, scheduledTask, cronExpression, liveTasks>>
  /\ UNCHANGED <<engineVars, jobStore, currentJob, runningJobs, isScheduled,
                 stopAllPc, stopAllJob, stopAllSeen, nextJobId, jobError>>

\* startScheduler resumes after await saveSchedulerState
StartSchedulerSaved ==
  /\ startPc = "saving"
  /\ \E s \in saves :
       /\ s.owner = "start"
       /\ Armed(Written(s), settings.intervalHours)
       /\ saves' = saves \ {s}
  /\ settings' = [settings EXCEPT !.enabled = FALSE]
  /\ startPc' = "idle"
  /\ UNCHANGED <<engineVars, jobStore, currentJob, runningJobs, isScheduled,
                 stopAllPc, stopAllJob, stopAllSeen, nextJobId, jobError>>

\* stopScheduler(true): disarm, settings.enabled = false, saveSchedulerState
\* without await; landed: its INSERT is executed before any other handler runs
Stopped(landed) ==
  /\ scheduledTask' = FALSE
  /\ cronExpression' = 0
  /\ liveTasks' = StopTask(liveTasks, scheduledTask)
  /\ settings' = [settings EXCEPT !.enabled = FALSE]
  /\ IF landed
     THEN dbState' = [settings EXCEPT !.enabled = FALSE] /\ UNCHANGED saves
     ELSE saves' = saves \cup {SaveOf("stop")} /\ UNCHANGED dbState

\* PaymentController.stopScheduler
StopScheduler(landed) ==
  /\ Stopped(landed)
  /\ lastEvent' = "schedulerStopped"
  /\ response' = "Scheduler stopped successfully"
  /\ UNCHANGED <<engineVars, jobStore, currentJob, runningJobs,
                 isScheduled, stopAllPc, stopAllJob, stopAllSeen, nextJobId, jobError, startPc>>

\* the INSERT of a saveSchedulerState that nobody awaits is executed
SaveLands(s) ==
  /\ s \in saves
  /\ s.owner # "start"
  /\ dbState' = Written(s)
  /\ saves' = saves \ {s}
  /\ Quiet
  /\ UNCHANGED <<engineVars, jobStore, scheduledTask, cronExpression, liveTasks, settings, currentJob,
                 runningJobs, isScheduled, stopAllPc, stopAllJob, stopAllSeen,
                 nextJobId, jobError, startPc>>

\* the cron callback of startScheduler, up to the await in executeScheduledJob
TimerFire ==
  /\ scheduledTask
  /\ IF PreviousJobRunning
     THEN /\ lastEvent' = "jobSkipped"
          /\ UNCHANGED <<pc, isScheduled, nextJobId>>
     ELSE /\ nextJobId <= MaxJobs
          /\ pc' = [pc EXCEPT ![nextJobId] = "fetch"]
          /\ isScheduled' = [isScheduled EXCEPT ![nextJobId] = TRUE]
          /\ nextJobId' = nextJobId + 1
          /\ lastEvent' = "none"
  /\ response' = "none"
  /\ UNCHANGED <<faults, tokenDown, isInitialized, stats, failedQueue, run, events, jobStore, scheduledTask, cronExpression, liveTasks,
                 settings, dbState, currentJob, runningJobs, stopAllPc,
                 stopAllJob, stopAllSeen, jobError, startPc, saves>>

\* PaymentController.runManualJob, with executeManualJob up to its first await
RunManualJob(size) ==
  /\ IF ~ValidBatchSize(size)
     THEN /\ response' = "Batch size must be between 5 and 100"
          /\ UNCHANGED <<pc, run, isScheduled, nextJobId>>
     ELSE /\ nextJobId <= MaxJobs
          /\ pc' = [pc EXCEPT ![nextJobId] = "fetch"]
          /\ run' = [run EXCEPT ![nextJobId].batchSize = size]
          /\ isScheduled' = [isScheduled EXCEPT ![nextJobId] = FALSE]
          /\ nextJobId' = nextJobId + 1
          /\ response' = "Manual job started successfully"
  /\ lastEvent' = "none"
  /\ UNCHANGED <<faults, tokenDown, isInitialized, stats, failedQueue, events, jobStore, scheduledTask, cronExpression, liveTasks, settings,
                 dbState, currentJob, runningJobs, stopAllPc, stopAllJob, stopAllSeen,
                 jobError, startPc, saves>>

\* getClients settles: executeScheduledJob / executeManualJob up to the await on
\* createProcessingJob, or into the catch block
ClientsFetched(j, n, ok) ==
  /\ pc[j] = "fetch"
  /\ IF ~ok
     THEN /\ pc' = [pc EXCEPT ![j] = "failing"]
          /\ jobError' = [jobError EXCEPT ![j] = "client source failed"]
          /\ UNCHANGED <<run, currentJob, runningJobs>>
     ELSE IF n = 0
     THEN /\ pc' = [pc EXCEPT ![j] = IF isScheduled[j] THEN "done" ELSE "failing"]
          /\ jobError' = [jobError EXCEPT ![j] =
                            IF isScheduled[j] THEN @ ELSE "No clients found for processing"]
          /\ UNCHANGED <<run, currentJob, runningJobs>>
     ELSE /\ pc' = [pc EXCEPT ![j] = "creating"]
          /\ run' = [run EXCEPT ![j].clients = ClientList(n)]
          /\ currentJob' = j
          /\ runningJobs' = Append(runningJobs, j)
          /\ UNCHANGED jobError
  /\ Quiet
  /\ UNCHANGED <<faults, tokenDown, isInitialized, stats, failedQueue, events, jobStore, scheduledTask, cronExpression, liveTasks, settings,
                 dbState, isScheduled, stopAllPc, stopAllJob, stopAllSeen,
                 nextJobId, startPc, saves>>

\* createProcessingJob and updateProcessingJob(running) settle; the job emits
\* jobStarted and calls processClients, which runs to its first await
JobCreated(j, ok) ==
  /\ pc[j] = "creating"
  /\ IF ok
     THEN /\ jobStore' = [jobStore EXCEPT ![j] = RunningRow]
          /\ StartRun(j, [run[j] EXCEPT !.batchSize =
                            IF isScheduled[j] THEN settings.batchSize ELSE @])
          /\ lastEvent' = "jobStarted"
          /\ UNCHANGED jobError
     ELSE /\ pc' = [pc EXCEPT ![j] = "failing"]
          /\ jobError' = [jobError EXCEPT ![j] = "job store failed"]
          /\ lastEvent' = "none"
          /\ UNCHANGED <<jobStore, run, stats, failedQueue, events>>
  /\ response' = "none"
  /\ UNCHANGED <<faults, tokenDown, isInitialized, scheduledTask, cronExpression, liveTasks, settings, dbState,
                 currentJob, runningJobs, isScheduled, stopAllPc, stopAllJob, stopAllSeen,
                 nextJobId, startPc, saves>>

\* updateProcessingJob(completed) settles after processClients returned; the
\* locals of processClients are gone from here on
JobCompleted(j) ==
  /\ pc[j] = "returned"
  /\ jobStore' = [jobStore EXCEPT ![j] =
                    CompletedRow(@, Len(run[j].clients), FinalStats(j))]
  /\ IF isScheduled[j] /\ currentJob = NoJob
     THEN \* this.currentJob.status = 'completed' throws on null
          /\ pc' = [pc EXCEPT ![j] = "failing"]
          /\ jobError' = [jobError EXCEPT ![j] = "Cannot set properties of null"]
          /\ lastEvent' = "none"
          /\ UNCHANGED <<currentJob, runningJobs>>
     ELSE /\ runningJobs' = MapDelete(runningJobs, j)
          /\ currentJob' = NoJob
          /\ lastEvent' = "jobCompleted"
          /\ pc' = [pc EXCEPT ![j] = "done"]
          /\ UNCHANGED jobError
  /\ run' = [run EXCEPT ![j] = IdleRun]
  /\ events' = [events EXCEPT ![j] = <<>>]
  /\ response' = "none"
  /\ UNCHANGED <<faults, tokenDown, isInitialized, stats, failedQueue, scheduledTask, cronExpression, liveTasks, settings,
                 dbState, isScheduled, stopAllPc, stopAllJob, stopAllSeen,
                 nextJobId, startPc, saves>>

\* the catch block of executeScheduledJob / executeManualJob after its
\* updateProcessingJob(failed) settled
JobFailed(j) ==
  /\ pc[j] = "failing"
  /\ jobStore' = [jobStore EXCEPT ![j] = FailedRow(@, jobError[j])]
  /\ runningJobs' = MapDelete(runningJobs, j)
  /\ currentJob' = NoJob
  /\ lastEvent' = "jobFailed"
  /\ pc' = [pc EXCEPT ![j] = "done"]
  /\ run' = [run EXCEPT ![j] = IdleRun]
  /\ events' = [events EXCEPT ![j] = <<>>]
  /\ response' = "none"
  /\ UNCHANGED <<faults, tokenDown, isInitialized, stats, failedQueue, scheduledTask, cronExpression, liveTasks, settings,
                 dbState, isScheduled, stopAllPc, stopAllJob, stopAllSeen,
                 nextJobId, jobError, startPc, saves>>

\* stopAllJobs after its last await: runningJobs.clear(), emit, return
StopAllDone ==
  /\ runningJobs' = <<>>
  /\ lastEvent' = "allJobsStopped"
  /\ response' = "All jobs stopped successfully"
  /\ stopAllPc' = "idle"
  /\ stopAllJob' = NoJob
  /\ stopAllSeen' = {}

\* for (const [jobId, job] of this.runningJobs): the Map iterator moves to the
\* first entry, in insertion order, it has not visited; the loop body awaits
\* the update of that entry's row
StopAllLoop(seen, event) ==
  LET rest == SelectSeq(runningJobs, LAMBDA x : x \notin seen)
  IN IF rest # <<>>
     THEN /\ stopAllPc' = "running"
          /\ stopAllJob' = Head(rest)
          /\ stopAllSeen' = seen \cup {Head(rest)}
          /\ lastEvent' = event
          /\ response' = "none"
          /\ UNCHANGED runningJobs
     ELSE StopAllDone

\* PaymentController.stopAllJobs: stopScheduler(), then up to the first await
StopAllJobs(landed) ==
  /\ stopAllPc = "idle"
  /\ Stopped(landed)
  /\ IF currentJob # NoJob
     THEN /\ stopAllPc' = "current"
          /\ stopAllJob' = currentJob
          /\ lastEvent' = "schedulerStopped"
          /\ response' = "none"
          /\ UNCHANGED <<runningJobs, stopAllSeen>>
     ELSE StopAllLoop({}, "schedulerStopped")
  /\ UNCHANGED <<engineVars, jobStore, currentJob, isScheduled,
                 nextJobId, jobError, startPc>>

\* stopAllJobs after the update of the current job's row: this.currentJob = null
StopAllCurrent ==
  /\ stopAllPc = "current"
  /\ jobStore' = [jobStore EXCEPT ![stopAllJob] = FailedRow(@, "Job stopped by user")]
  /\ currentJob' = NoJob
  /\ StopAllLoop({}, "none")
  /\ UNCHANGED <<engineVars, scheduledTask, cronExpression, liveTasks, settings, dbState, isScheduled,
                 nextJobId, jobError, startPc, saves>>

\* stopAllJobs after the update of the row of one entry of runningJobs
StopAllRunning ==
  /\ stopAllPc = "running"
  /\ jobStore' = [jobStore EXCEPT ![stopAllJob] = FailedRow(@, "Job stopped by user")]
  /\ StopAllLoop(stopAllSeen, "none")
  /\ UNCHANGED <<engineVars, scheduledTask, cronExpression, liveTasks, settings, dbState, currentJob,
                 isScheduled, nextJobId, jobError, startPc, saves>>

\* no job is running; the jobs to come take the ids first..MaxJobs
InitJobs(first) ==
  /\ InitScheduler
  /\ nextJobId = first
  /\ stats = resetStats
  /\ failedQueue = <<>>
  /\ run = [j \in Jobs |-> IdleRun]
  /\ pc = [j \in Jobs |-> "idle"]
  /\ events = [j \in Jobs |-> <<>>]

Init ==
  /\ InitJobs(1)
  /\ faults = MaxFaults
  /\ tokenDown = FALSE

Next ==
  \/ \E size \in BatchSizeInputs : StartScheduler(defaultIntervalHours, size, TRUE)
  \/ StopScheduler(TRUE)
  \/ TimerFire
  \/ \E size \in BatchSizeInputs : RunManualJob(size)
  \/ \E j \in Jobs, n \in 0..MaxJobClients, ok \in BOOLEAN : ClientsFetched(j, n, ok)
  \/ \E j \in Jobs, ok \in BOOLEAN : JobCreated(j, ok)
  \/ \E j \in Jobs : \E d \in run[j].inflight : \E ok \in BOOLEAN : Settle(j, d, ok)
  \/ \E j \in Jobs : AfterDelay(j)
  \/ \E j \in Jobs : JobCompleted(j)
  \/ \E j \in Jobs : JobFailed(j)
  \/ StopAllJobs(TRUE)
  \/ StopAllCurrent
  \/ StopAllRunning

\* the job life cycle: timer fires, manual runs, stopAll, start and stop, with
\* every write of the scheduler_state row executed at once
Spec == Init /\ [][Next]_vars

\* the life cycle of one job while the token provider is down: getValidToken
\* throws in every dispatch
InitToken ==
  /\ InitJobs(MaxJobs)
  /\ faults = 0
  /\ tokenDown = TRUE

SpecToken == InitToken /\ [][Next]_vars

\* what the control surface leaves alone while no job exists or runs
paymentVars == <<stats, failedQueue, pc, run, events, faults, tokenDown>>

\* initialize restarting from any row it finds, enabled or not
SavedEnabledAnyRow(saved) == saved # NoRow

\* initialize: if (savedState && savedState.enabled)
SavedEnabled(saved) == saved # NoRow /\ saved.enabled

\* startScheduler(arg) called inside the service, with its save executed at
\* once: settings = {...settings, ...arg, enabled: true}, save,
\* stopScheduler(false), cron.schedule; old is the settings object it replaces
ServiceStart(arg, old) ==
  LET merged == [enabled |-> TRUE, intervalHours |-> arg.intervalHours,
                 batchSize |-> arg.batchSize]
  IN /\ ArmedTask(merged, merged.intervalHours)
     /\ settings' = [merged EXCEPT !.enabled = FALSE]
     /\ saves' = Detach(saves, old)

\* SchedulerService.initialize, called by the application before it listens
Initialize ==
  /\ ~isInitialized
  /\ IF SavedEnabled(dbState)
     THEN ServiceStart(dbState, settings)
     ELSE /\ lastEvent' = "none"
          /\ UNCHANGED <<dbState, scheduledTask, cronExpression, liveTasks, settings, saves>>
  /\ response' = "none"
  /\ isInitialized' = TRUE
  /\ UNCHANGED <<paymentVars, jobStore, currentJob, runningJobs, isScheduled,
                 stopAllPc, stopAllJob, stopAllSeen, nextJobId, jobError, startPc>>

\* the setInterval callback of startStatusVerification
VerifyTick ==
  /\ isInitialized
  /\ IF dbState = NoRow \/ dbState.enabled = settings.enabled
     THEN /\ lastEvent' = "none"
          /\ UNCHANGED <<dbState, scheduledTask, cronExpression, liveTasks, settings, saves>>
     ELSE IF dbState.enabled /\ ~scheduledTask
     THEN ServiceStart(dbState, [settings EXCEPT !.enabled = TRUE])
     ELSE IF ~dbState.enabled /\ scheduledTask
     THEN /\ scheduledTask' = FALSE
          /\ cronExpression' = 0
          /\ liveTasks' = StopTask(liveTasks, scheduledTask)
          /\ settings' = [settings EXCEPT !.enabled = FALSE]
          /\ lastEvent' = "schedulerStopped"
          /\ UNCHANGED <<dbState, saves>>
     ELSE /\ settings' = [settings EXCEPT !.enabled = dbState.enabled]
          /\ lastEvent' = "none"
          /\ UNCHANGED <<dbState, scheduledTask, cronExpression, liveTasks, saves>>
  /\ response' = "none"
  /\ UNCHANGED <<engineVars, jobStore, currentJob, runningJobs, isScheduled,
                 stopAllPc, stopAllJob, stopAllSeen, nextJobId, jobError, startPc>>

\* SchedulerService.getStatus: the row is read and settings.enabled is set to
\* the enabled value it reports
GetStatus ==
  /\ settings' = [settings EXCEPT !.enabled = ActualEnabled]
  /\ Quiet
  /\ UNCHANGED <<engineVars, jobStore, scheduledTask, cronExpression, liveTasks, dbState,
                 saves, currentJob, runningJobs, isScheduled, stopAllPc,
                 stopAllJob, stopAllSeen, nextJobId, jobError, startPc>>

\* PaymentController.updateSettings({intervalHours: hours, batchSize: size}): the
\* two values are checked first, then the service merges
\* and saves, restarts if settings.enabled was set, and the controller answers
\* after getStatus; landed: the INSERTs are executed before getStatus reads
UpdateSettings(hours, size, landed) ==
  /\ IF ~ValidInterval(hours)
     THEN /\ response' = "Interval hours must be between 1 and 12"
          /\ lastEvent' = "none"
          /\ UNCHANGED <<settings, saves, startPc, dbState, scheduledTask,
                         cronExpression, liveTasks>>
     ELSE IF ~ValidBatchSize(size)
     THEN /\ response' = "Batch size must be between 5 and 100"
          /\ lastEvent' = "none"
          /\ UNCHANGED <<settings, saves, startPc, dbState, scheduledTask,
                         cronExpression, liveTasks>>
     ELSE LET wasEnabled == settings.enabled
              merged == [settings EXCEPT !.intervalHours = hours,
                                         !.batchSize = size]
          IN /\ response' = "Settings updated successfully"
             /\ IF wasEnabled
                THEN IF landed
                     THEN /\ ArmedTask(merged, hours)
                          /\ settings' = merged
                          /\ saves' = Detach(saves, settings)
                          /\ UNCHANGED startPc
                     ELSE /\ startPc = "idle"
                          /\ startPc' = "saving"
                          /\ settings' = [merged EXCEPT !.enabled = ActualEnabled]
                          /\ saves' = Detach(saves, settings) \cup
                                        {[owner |-> "update", live |-> FALSE,
                                          snap |-> merged], SaveOf("start")}
                          /\ lastEvent' = "settingsUpdated"
                          /\ UNCHANGED <<dbState, scheduledTask, cronExpression, liveTasks>>
                ELSE /\ lastEvent' = "settingsUpdated"
                     /\ UNCHANGED <<startPc, scheduledTask, cronExpression, liveTasks>>
                     /\ IF landed
                        THEN /\ dbState' = merged
                             /\ settings' = merged
                             /\ saves' = Detach(saves, settings)
                        ELSE /\ settings' = [merged EXCEPT !.enabled = ActualEnabled]
                             /\ saves' = Detach(saves, settings) \cup {SaveOf("update")}
                             /\ UNCHANGED dbState
  /\ UNCHANGED <<engineVars, jobStore, currentJob, runningJobs, isScheduled,
                 stopAllPc, stopAllJob, stopAllSeen, nextJobId, jobError>>

\* gracefulShutdown(signal) to process.exit: stopScheduler() with the default
\* updateDatabase = true, then the process ends and the next one is constructed;
\* landed: the INSERT of the stop is executed before the process ends
GracefulShutdown(landed) ==
  /\ isInitialized
  /\ currentJob = NoJob
  /\ runningJobs = <<>>
  /\ dbState' = IF landed THEN [settings EXCEPT !.enabled = FALSE] ELSE dbState
  /\ scheduledTask' = FALSE
  /\ cronExpression' = 0
  /\ liveTasks' = 0
  /\ settings' = [enabled |-> FALSE, intervalHours |-> defaultIntervalHours,
                  batchSize |-> defaultBatchSize]
  /\ saves' = {}
  /\ startPc' = "idle"
  /\ stopAllPc' = "idle"
  /\ stopAllJob' = NoJob
  /\ stopAllSeen' = {}
  /\ isInitialized' = FALSE
  /\ lastEvent' = "schedulerStopped"
  /\ response' = "none"
  /\ UNCHANGED <<paymentVars, jobStore, currentJob, runningJobs, isScheduled,
                 nextJobId, jobError>>

\* the scheduler_state rows a previous run of the process can have left
PersistedRows ==
  {[enabled |-> e, intervalHours |-> h, batchSize |-> defaultBatchSize] :
     e \in BOOLEAN, h \in {i \in IntervalInputs : ValidInterval(i)}}

\* the process starts: the constructor has run, initialize has not, and the
\* scheduler_state table holds what the previous run left
InitControl ==
  /\ InitMemory
  /\ dbState \in PersistedRows \cup {NoRow}
  /\ isInitialized = FALSE
  /\ nextJobId = 1
  /\ faults = 0
  /\ tokenDown = FALSE
  /\ stats = resetStats
  /\ failedQueue = <<>>
  /\ run = [j \in Jobs |-> IdleRun]
  /\ pc = [j \in Jobs |-> "idle"]
  /\ events = [j \in Jobs |-> <<>>]

\* a call may leave its write in flight while fewer than MaxPending are
MayIssue(landed) == landed \/ Cardinality(saves) < MaxPending

\* the control plane alone, with the writes of the scheduler_state row in flight
NextControl ==
  \/ Initialize
  \/ VerifyTick
  \/ isInitialized /\ GetStatus
  \/ isInitialized /\ \E hours \in IntervalInputs, size \in BatchSizeInputs,
                         landed \in BOOLEAN :
                         MayIssue(landed) /\ StartScheduler(hours, size, landed)
  \/ isInitialized /\ StartSchedulerSaved
  \/ isInitialized /\ \E landed \in BOOLEAN :
                         MayIssue(landed) /\ StopScheduler(landed)
  \/ isInitialized /\ \E landed \in BOOLEAN :
                         MayIssue(landed) /\ StopAllJobs(landed)
  \/ isInitialized /\ \E hours \in IntervalInputs, size \in BatchSizeInputs,
                         landed \in BOOLEAN :
                         MayIssue(landed) /\ UpdateSettings(hours, size, landed)
  \/ \E s \in saves : SaveLands(s)
  \/ \E landed \in BOOLEAN : GracefulShutdown(landed)

SpecControl == InitControl /\ [][NextControl]_vars

\* ------------------------------------------------- what the jobs are doing
\* processClients of job j has been called and has not returned
EngineActive(j) == pc[j] \in {"process", "batch", "delay"}

\* job j has made itself currentJob and its handler has not reached its end
InFlight(j) == pc[j] \in {"creating", "process", "batch", "delay", "returned"}

\* the only "already running" answer PaymentController gives
AlreadyRunning == "Scheduler is already running"

\* ------------------------------------------------------------------ claims
\* C1: at every instant at most one processClients run is active and
\* runningJobs holds at most one job.
C1_SingleJobInFlight ==
  /\ Cardinality({j \in Jobs : EngineActive(j)}) <= 1
  /\ Len(runningJobs) <= 1

\* C2: a runManualJob call with a valid batch size made while a job is current
\* is answered "already running" and changes neither currentJob, runningJobs,
\* the payment statistics, the retry queue nor the job rows, and starts no job.
C2_ManualRejected ==
  [][\A size \in BatchSizeInputs :
       (currentJob # NoJob /\ ValidBatchSize(size) /\ RunManualJob(size)) =>
         /\ response' = AlreadyRunning
         /\ UNCHANGED <<currentJob, runningJobs, stats, failedQueue, jobStore,
                        pc, nextJobId>>]_vars

\* C3: when the cron callback runs while a job is in flight, it emits jobSkipped
\* and starts no job.
C3_TimerSkips ==
  [][(TimerFire /\ \E j \in Jobs : InFlight(j)) =>
       (lastEvent' = "jobSkipped" /\ UNCHANGED <<pc, nextJobId>>)]_vars


C5_EventOrder ==
  \A j \in Jobs :
    LET evs == events[j] IN
    /\ Len(evs) > 0 => evs[1].type = "processingStarted"
    /\ \A i \in 2..Len(evs) :
         IF evs[i].type = "processingCompleted"
         THEN i = Len(evs) /\ i % 2 = 0
         ELSE IF i % 2 = 0
              THEN evs[i].type = "batchStarted" /\ evs[i].batchIndex = i \div 2
              ELSE evs[i].type = "batchCompleted" /\ evs[i].batchIndex = (i - 1) \div 2
    /\ Returned(j) <=> Cardinality(EventsOfType(j, "processingCompleted")) = 1
    /\ Cardinality(EventsOfType(j, "processingCompleted")) <= 1

C5_Witness ==
  \E j \in Jobs :
    /\ Returned(j)
    /\ Cardinality(EventsOfType(j, "batchCompleted")) >= 3
    /\ \E i \in EventsOfType(j, "batchStarted") : events[j][i].retryCount > 0

\* C6: batches of a run are sequential: every dispatch in flight belongs to the
\* batch started last, so at most batchSize dispatches are in flight.
C6_SequentialBatches ==
  \A j \in Jobs :
    /\ \A d \in run[j].inflight : d.batch = run[j].batchIndex
    /\ run[j].inflight # {} => Cardinality(run[j].inflight) <= run[j].batchSize
    /\ run[j].inflight # {} => pc[j] = "batch"

C6_Witness ==
  \E j \in Jobs :
    /\ run[j].batchIndex >= 2
    /\ run[j].batchSize >= 2
    /\ Cardinality(run[j].inflight) = run[j].batchSize

\* the step of job j that builds and dispatches a batch
BatchBuilt(j) == pc'[j] = "batch" /\ run'[j].batchIndex # run[j].batchIndex

\* retry-queue and primary-queue lengths when job j builds its next batch
QueuedAtBuild(j) == IF pc[j] = "process" THEN 0 ELSE Len(failedQueue)
PrimaryAtBuild(j) ==
  IF pc[j] = "process" THEN Len(run[j].clients) ELSE Len(run[j].allClients)

C8_BatchBounds ==
  \A j \in Jobs :
    /\ \A i \in EventsOfType(j, "batchStarted") :
         events[j][i].batchSize >= 1 /\ events[j][i].batchSize <= run[j].batchSize
    /\ pc[j] = "batch" =>
         Len(run[j].currentBatch) >= 1 /\ Len(run[j].currentBatch) <= run[j].batchSize

C8_Witness ==
  \E j \in Jobs : \E i \in EventsOfType(j, "batchStarted") :
    /\ run[j].batchSize >= 2
    /\ events[j][i].batchSize = run[j].batchSize
    /\ events[j][i].retryCount >= 1
    /\ \E k \in EventsOfType(j, "batchStarted") : events[j][k].batchSize = 1

C10_PermanentFailures ==
  \A j \in Jobs : Returned(j) =>
    /\ (\A m \in Msisdns(j) : Exhausted(j, m)) =>
          FinalStats(j).failed = Len(run[j].clients)
    /\ FinalStats(j).permanentFailures =
          Cardinality({m \in Msisdns(j) : Exhausted(j, m)})

\* C11: the statistics snapshot taken at the end of a run has failed >= retried
\* and permanentFailures = failed - retried >= 0.
C11_FailedCoversRetried ==
  \A j \in Jobs : Returned(j) =>
    LET s == FinalStats(j)
    IN /\ s.failed >= s.retried
       /\ s.permanentFailures = s.failed - s.retried
       /\ s.permanentFailures >= 0

\* C12: a failed dispatch aborts neither its batch nor the run: every item of
\* a batch has one outcome in that batch's results, no outcome is missing from
\* the returned list, and when the run returns every client has been dispatched.
C12_NoAbort ==
  \A j \in Jobs :
    /\ \A i \in EventsOfType(j, "batchCompleted") :
         \E k \in EventsOfType(j, "batchStarted") :
           /\ k < i
           /\ events[j][k].batchIndex = events[j][i].batchIndex
           /\ events[j][k].batchSize =
                events[j][i].successfulInBatch + events[j][i].failedInBatch
    /\ \A i \in 1..Len(run[j].results) : run[j].results[i] # NoResult
    /\ Returned(j) =>
         /\ Len(run[j].results) = SumBatchOutcomes(events[j])
         /\ \A m \in Msisdns(j) : OutcomesOf(j, m) # {}

C12_Witness ==
  \E j \in Jobs :
    /\ Returned(j)
    /\ Len(run[j].clients) = MaxClients
    /\ run[j].batchSize = 1
    /\ FailuresOf(j, 1) # {}

\* C13: while the token provider is down no job is reported as completed:
\* no job row gets status completed and jobCompleted is not emitted.
C13_TokenFailureFailsJob ==
  tokenDown =>
    /\ lastEvent # "jobCompleted"
    /\ \A j \in Jobs : jobStore[j].status # "completed"

\* C14: a job row whose status is completed or failed is never written again:
\* its status, counters and error message stay as they are.
C14_TerminalRowsFrozen ==
  [][\A j \in Jobs :
       jobStore[j].status \in {"completed", "failed"} => jobStore'[j] = jobStore[j]]_vars

\* C15: in the step in which stopAllJobs completes, the timer is disarmed, the
\* scheduler_state row has enabled = false, currentJob is null, runningJobs is
\* empty, and the row of every job stopAllJobs found in flight has status
\* failed with the reason "Job stopped by user".
C15_StopAllStopsEverything ==
  [][response' = "All jobs stopped successfully" =>
       /\ ~scheduledTask'
       /\ dbState' # NoRow /\ ~dbState'.enabled
       /\ currentJob' = NoJob
       /\ runningJobs' = <<>>
       /\ \A j \in (stopAllSeen \cup {stopAllJob}) \ {NoJob} :
            /\ jobStore'[j].status = "failed"
            /\ jobStore'[j].error = "Job stopped by user"]_vars

\* ---- next fire times ----

\* getNextRunTime / getNextRunTimes return null / [] : no time
NoTime == 0 - 1

\* now.getHours() and now.getMinutes() at the moment of the call
ClockHours == {0, 5, 23}
ClockMinutes == {0, 30}

\* getScheduleTimes(intervalHours): 0, intervalHours, 2 * intervalHours, ... below 24
getScheduleTimes(intervalHours) == {h \in 0..23 : h % intervalHours = 0}

\* getNextRunTime() at hour:minute, as hours after today's midnight
getNextRunTime(hour, minute) ==
  IF ~settings.enabled \/ ~scheduledTask
  THEN NoTime
  ELSE LET later == {h \in getScheduleTimes(settings.intervalHours) :
                       h > hour \/ (h = hour /\ minute = 0)}
       IN IF later # {}
          THEN CHOOSE h \in later : \A g \in later : h <= g
          ELSE 24

\* getNextRunTimes(count) at hour:minute
getNextRunTimes(count, hour, minute) ==
  IF ~settings.enabled \/ ~scheduledTask
  THEN <<>>
  ELSE LET firstRun == getNextRunTime(hour, minute)
       IN IF firstRun = NoTime
          THEN <<>>
          ELSE [i \in 1..count |-> firstRun + (i - 1) * settings.intervalHours]

\* C16: when startScheduler has answered "Scheduler started successfully", the
\* nextRun it computed after arming the timer is a time (not null) and its
\* upcomingSchedules are 5 times, whatever the time of day.
C16_StartReturnsFireTimes ==
  response = "Scheduler started successfully" =>
    \A hour \in ClockHours, minute \in ClockMinutes :
      /\ getNextRunTime(hour, minute) # NoTime
      /\ Len(getNextRunTimes(5, hour, minute)) = 5

\* no control call is between two of its steps and no write is in flight
NoCallInProgress ==
  /\ isInitialized
  /\ startPc = "idle"
  /\ stopAllPc = "idle"
  /\ saves = {}

\* C17: once no call is in progress, the enabled value getStatus() reports
\* equals the persisted enabled flag and is true exactly when the timer is armed.
C17_StatusReflectsReality ==
  NoCallInProgress =>
    /\ dbState # NoRow => ActualEnabled = dbState.enabled
    /\ ActualEnabled <=> scheduledTask

\* C18: in a state in which the scheduler is enabled (as getStatus reports it)
\* with its timer armed, updateSettings({intervalHours: hours, batchSize: size})
\* with valid values, once its saves are executed, has persisted the merged settings with
\* enabled = true and has re-armed the timer with the merged interval.
C18_UpdateRearms ==
  [][\A hours \in IntervalInputs, size \in BatchSizeInputs :
       (/\ ValidInterval(hours)
        /\ ValidBatchSize(size)
        /\ ActualEnabled
        /\ scheduledTask
        /\ NoCallInProgress
        /\ UpdateSettings(hours, size, TRUE))
       => /\ dbState' # NoRow
          /\ dbState'.enabled
          /\ dbState'.intervalHours = hours
          /\ dbState'.batchSize = size
          /\ scheduledTask'
          /\ cronExpression' = hours]_vars

\* ---- reconciliation on its own ----

\* the persisted enabled flag and the timer disagree
Disagree == dbState # NoRow /\ dbState.enabled # scheduledTask

\* the control calls with their writes executed at once, the verification timer
\* and getStatus
NextVerify ==
  \/ Initialize
  \/ VerifyTick
  \/ isInitialized /\ GetStatus
  \/ isInitialized /\ \E hours \in IntervalInputs, size \in BatchSizeInputs :
                         StartScheduler(hours, size, TRUE)
  \/ isInitialized /\ \E landed \in BOOLEAN : StopScheduler(landed)
  \/ isInitialized /\ \E hours \in IntervalInputs, size \in BatchSizeInputs :
                         UpdateSettings(hours, size, TRUE)
  \/ \E s \in saves : SaveLands(s)

\* initialize is awaited before the application listens, its setInterval runs
\* the verification callback every statusCheckInterval from then on, and a
\* write that was issued is executed
SpecVerify ==
  /\ InitControl
  /\ [][NextVerify]_vars
  /\ WF_vars(Initialize)
  /\ WF_vars(VerifyTick)
  /\ WF_vars(\E s \in saves : SaveLands(s))

\* C19: from a state in which the persisted enabled flag and the timer disagree
\* and the verification timer is running, unless a further control call is
\* answered, the timer eventually is armed exactly when the persisted flag is
\* true; getStatus may run before the tick.
C19_TickReconciles ==
  (isInitialized /\ Disagree) ~> (~Disagree \/ response # "none")

\* C20: the step in which initialize() completes: with a persisted row that
\* says enabled, the timer is armed on the persisted interval, the batch size
\* is the persisted one, no control call was answered, and getStatus() reports
\* enabled = true; with no row or a row that says disabled, no timer is armed.
C20_InitializeRestores ==
  [][(~isInitialized /\ isInitialized') =>
       IF (IF dbState = NoRow THEN FALSE ELSE dbState.enabled)
       THEN /\ scheduledTask'
            /\ cronExpression' = dbState.intervalHours
            /\ settings'.batchSize = dbState.batchSize
            /\ response' = "none"
            /\ ActualEnabled'
       ELSE /\ ~scheduledTask'
            /\ cronExpression' = 0
            /\ dbState' = dbState]_vars

\* initialize() has just restored a persisted 6-hour schedule
C20_Witness ==
  /\ isInitialized
  /\ scheduledTask
  /\ cronExpression = 6
  /\ dbState # NoRow
  /\ dbState.enabled
  /\ lastEvent = "schedulerStarted"
  /\ response = "none"
  /\ settings.intervalHours = 6

\* C21: when the process is shut down gracefully while the scheduler is enabled
\* (as getStatus reports it) with its timer armed and no call in progress, the
\* persisted flag still says enabled when the next process is constructed, so
\* that its initialize() re-arms the timer.
C21_ShutdownKeepsEnabled ==
  [][(/\ isInitialized
      /\ ~isInitialized'
      /\ NoCallInProgress
      /\ ActualEnabled
      /\ scheduledTask)
     => SavedEnabled(dbState')]_vars

\* C22: a start call with valid settings, made while the scheduler is enabled
\* (as getStatus reports it) with its timer armed, is answered "Scheduler is
\* already running" and leaves the timer alone if a job is in flight, and
\* otherwise succeeds and re-arms the timer with the new settings.
C22_SecondStart ==
  [][\A hours \in IntervalInputs, size \in BatchSizeInputs :
       (/\ ValidInterval(hours)
        /\ ValidBatchSize(size)
        /\ ActualEnabled
        /\ scheduledTask
        /\ StartScheduler(hours, size, TRUE))
       => IF \E j \in Jobs : InFlight(j)
          THEN /\ response' = AlreadyRunning
               /\ UNCHANGED <<scheduledTask, cronExpression, dbState>>
          ELSE /\ response' = "Scheduler started successfully"
               /\ scheduledTask'
               /\ cronExpression' = hours
               /\ dbState' = [enabled |-> TRUE, intervalHours |-> hours,
                              batchSize |-> size]]_vars

C24_StopLeavesJobs ==
  [][/\ response' = "Scheduler stopped successfully" =>
          /\ ~scheduledTask'
          /\ dbState' # dbState => ~dbState'.enabled
          /\ UNCHANGED <<currentJob, runningJobs, jobStore, pc, run, stats,
                         failedQueue>>
     /\ \A s \in saves :
          (s.owner = "stop" /\ SaveLands(s)) => ~dbState'.enabled]_vars

\* C25: stop() called while the scheduler is stopped (no timer, a persisted row
\* that says disabled, no call in progress) is answered as a success and is a
\* no-op: the timer stays disarmed, and the in-memory settings and the
\* persisted row after the call and its write equal those before it.
C25_StopTwiceNoOp ==
  [][(/\ NoCallInProgress
      /\ ~scheduledTask
      /\ ~settings.enabled
      /\ dbState # NoRow
      /\ ~ActualEnabled
      /\ StopScheduler(TRUE))
     => /\ ~scheduledTask'
        /\ settings' = settings
        /\ dbState' = dbState]_vars

\* C26: when the catch block of a scheduled job has run because getClients or
\* the job store threw, the record of that job says failed with the error
\* message, jobFailed was emitted, currentJob is cleared, and the timer, the
\* persisted row and the settings are as before.
C26_ScheduledFailure ==
  [][\A j \in Jobs :
       (isScheduled[j] /\ pc[j] = "failing" /\ pc'[j] = "done")
       => /\ jobStore'[j].status = "failed"
          /\ jobStore'[j].error = jobError[j]
          /\ lastEvent' = "jobFailed"
          /\ currentJob' = NoJob
          /\ UNCHANGED <<scheduledTask, cronExpression, settings, dbState>>]_vars

\* C27: from one write of a job's record to the next, from the first write at
\* a batch boundary to the terminal write, none of the counters processed,
\* successful and failed decreases.
C27_CountersMonotone ==
  [][\A j \in Jobs :
       (jobStore[j] # NoRecord /\ jobStore'[j] # NoRecord)
       => /\ jobStore'[j].processed >= jobStore[j].processed
          /\ jobStore'[j].successful >= jobStore[j].successful
          /\ jobStore'[j].failed >= jobStore[j].failed]_vars

\* C28: a processClients call on an empty client list has returned at its
\* first step, with exactly the events processingStarted and
\* processingCompleted, no batch and no outcome, and final statistics that are
\* all zero.
C28_EmptyRun ==
  \A j \in Jobs :
    (pc[j] \in {"batch", "delay", "returned"} /\ Len(run[j].clients) = 0)
    => /\ Returned(j)
       /\ Len(events[j]) = 2
       /\ events[j][1].type = "processingStarted"
       /\ events[j][1].totalClients = 0
       /\ events[j][1].totalBatches = 0
       /\ events[j][2].type = "processingCompleted"
       /\ run[j].batchIndex = 0
       /\ run[j].results = <<>>
       /\ FinalStats(j).totalRequests = 0
       /\ FinalStats(j).successful = 0
       /\ FinalStats(j).failed = 0
       /\ FinalStats(j).retried = 0

\* processClients([]) has returned
C28_Witness ==
  \E j \in Jobs :
    /\ Returned(j)
    /\ Len(run[j].clients) = 0
    /\ Len(events[j]) = 2

\* C29: when getClients returns an empty list to a job, the job does not enter
\* its catch block, and it does not end without having emitted its completion
\* event.
C29_EmptyJobCompletes ==
  [][\A j \in Jobs :
       ClientsFetched(j, 0, TRUE)
       => /\ pc'[j] # "failing"
          /\ pc'[j] = "done" => lastEvent' = "jobCompleted"]_vars

AllIntervals == 0..13

\* config.processing.maxRequestsPerDay
maxRequestsPerDay == 6

\* generateCronExpression(intervalHours): the hours of `0 h1,h2,... * * *`, at
\* which the armed timer fires every day
generateCronExpression(intervalHours) ==
  {h \in 0..23 : \E k \in 0..23 : h = k * intervalHours}

\* the control calls with any interval, their writes executed at once, and the
\* verification timer
NextIntervals ==
  \/ Initialize
  \/ VerifyTick
  \/ isInitialized /\ \E hours \in AllIntervals :
                         StartScheduler(hours, defaultBatchSize, TRUE)
  \/ isInitialized /\ StopScheduler(TRUE)
  \/ isInitialized /\ \E hours \in AllIntervals :
                         UpdateSettings(hours, defaultBatchSize, TRUE)

SpecIntervals == InitControl /\ [][NextIntervals]_vars

\* C32: while the timer is armed on the interval of the settings, every time
\* in the list of upcoming fire times that getNextRunTimes(5) reports, at any
\* time of day, falls on an hour at which the armed timer fires.
C32_UpcomingAreSlots ==
  (scheduledTask /\ settings.enabled /\ cronExpression = settings.intervalHours)
  => \A hour \in ClockHours, minute \in ClockMinutes :
       LET upcoming == getNextRunTimes(5, hour, minute)
       IN \A k \in 1..Len(upcoming) :
            (upcoming[k] % 24) \in generateCronExpression(cronExpression)

\* C33: whatever interval the control surface accepted, the armed timer fires
\* at most maxRequestsPerDay = 6 times a day.
C33_AtMostSixPerDay ==
  scheduledTask =>
    Cardinality(generateCronExpression(cronExpression)) <= maxRequestsPerDay

\* the dispatch of client m has succeeded: its outcome is in the results of the
\* run or in the results of the batch being awaited
Succeeded(j, m) ==
  \/ SuccessesOf(j, m) # {}
  \/ \E i \in 1..Len(run[j].batchResults) :
       /\ IsSuccess(run[j].batchResults[i])
       /\ run[j].batchResults[i].msisdn = m

EveryClientSettled(j) ==
  /\ run[j].allClients = <<>>
  /\ run[j].inflight = {}
  /\ \A m \in Msisdns(j) :
       \/ /\ Cardinality(SuccessesOf(j, m)) = 1
          /\ Cardinality(FailuresOf(j, m)) <= maxRetries
       \/ Exhausted(j, m)

\* C35: in the step in which processClients returns, the retry queue is empty
\* and every client of the run has either exactly one successful outcome or
\* exactly maxRetries + 1 failed outcomes and no successful one; none is left
\* unattempted or dropped with retry budget left.
C35_EveryClientSettled ==
  [][\A j \in Jobs :
       (~Returned(j) /\ Returned(j)')
       => (failedQueue' = <<>> /\ EveryClientSettled(j)')]_vars

\* ---- one engine run in which every dispatch settles ----

\* every dispatch of a batch settles, the inter-batch timer fires, and the
\* event loop runs each continuation that is ready
SpecEngineFair ==
  /\ InitEngine
  /\ [][NextEngine]_vars
  /\ WF_vars(\E j \in Jobs : ProcessClients(j))
  /\ WF_vars(\E j \in Jobs : AfterDelay(j))
  /\ WF_vars(\E j \in Jobs : \E d \in run[j].inflight : \E ok \in BOOLEAN :
               Settle(j, d, ok))

\* dispatch attempts the run has started: the outcomes pushed to results and
\* the batch being awaited
Attempts(j) ==
  Len(run[j].results) + (IF pc[j] = "batch" THEN Len(run[j].currentBatch) ELSE 0)

\* processClients has returned and the last event it emitted is processingCompleted
Completed(j) ==
  /\ Returned(j)
  /\ Len(events[j]) > 0
  /\ events[j][Len(events[j])].type = "processingCompleted"

\* ---- two engine runs on the one PaymentService ----

\* two jobs have fetched their clients and wait for createProcessingJob: each
\* is about to call processClients (the state after two runManualJob calls)
InitOverlap ==
  /\ InitScheduler
  /\ nextJobId = MaxJobs + 1
  /\ faults = MaxJobs * MaxJobClients * (maxRetries + 1)
  /\ tokenDown = FALSE
  /\ stats = resetStats
  /\ failedQueue = <<>>
  /\ \E b \in [Jobs -> 1..MaxBatchSize] :
       run = [j \in Jobs |-> NewRun(MaxJobClients, b[j])]
  /\ pc = [j \in Jobs |-> "process"]
  /\ events = [j \in Jobs |-> <<>>]

SpecOverlap ==
  /\ InitOverlap
  /\ [][NextEngine]_vars
  /\ WF_vars(\E j \in Jobs : ProcessClients(j))
  /\ WF_vars(\E j \in Jobs : AfterDelay(j))
  /\ WF_vars(\E j \in Jobs : \E d \in run[j].inflight : \E ok \in BOOLEAN :
               Settle(j, d, ok))

\* C36: every call of processClients, for every list of L clients, every batch
\* size >= 1 and every pattern of outcomes, returns once its dispatches settle:
\* it never starts more than (maxRetries + 1) * L dispatch attempts, and it
\* ends having emitted processingCompleted.
C36_Terminates ==
  /\ [](\A j \in Jobs : Attempts(j) <= (maxRetries + 1) * Len(run[j].clients))
  /\ \A j \in Jobs : (pc[j] = "process") ~> Completed(j)

\* ---- the job life cycle in which every awaited call settles ----

\* a continuation of a job handler or of stopAllJobs: the call it awaits has settled
JobSteps ==
  \/ \E j \in Jobs, n \in 0..MaxJobClients, ok \in BOOLEAN : ClientsFetched(j, n, ok)
  \/ \E j \in Jobs, ok \in BOOLEAN : JobCreated(j, ok)
  \/ \E j \in Jobs : \E d \in run[j].inflight : \E ok \in BOOLEAN : Settle(j, d, ok)
  \/ \E j \in Jobs : AfterDelay(j)
  \/ \E j \in Jobs : JobCompleted(j)
  \/ \E j \in Jobs : JobFailed(j)
  \/ StopAllCurrent
  \/ StopAllRunning

\* the job life cycle with the default interval and batch size only
NextJobs ==
  \/ StartScheduler(defaultIntervalHours, defaultBatchSize, TRUE)
  \/ TimerFire
  \/ RunManualJob(defaultBatchSize)
  \/ StopAllJobs(TRUE)
  \/ JobSteps

\* every awaited call settles and the event loop runs a continuation that is
\* ready; timer fires and control calls are free to happen or not. MaxJobs jobs
\* whose dispatches all succeed, or one job with up to MaxFaults failed dispatches
SpecFair ==
  /\ \/ InitJobs(1) /\ faults = 0
     \/ InitJobs(MaxJobs) /\ faults = MaxFaults
  /\ tokenDown = FALSE
  /\ [][NextJobs]_vars
  /\ WF_vars(JobSteps)

\* job j has emitted jobStarted: its row exists since the step that emitted it
JobStarted(j) == jobStore[j] # NoRecord

\* executeScheduledJob / executeManualJob of job j has returned
JobReturned(j) == pc[j] = "done"

TerminalEvents == {"jobCompleted", "jobFailed"}

\* C37: a job that emitted jobStarted emits exactly one terminal event,
\* jobCompleted or jobFailed: a terminal event is emitted only in the step in
\* which the handler of one job returns, a returned handler does nothing more,
\* and every started job gets there; when the handler of a started job returns
\* it emits a terminal event and the job is neither in runningJobs nor
\* currentJob.
C37_OneTerminalEvent ==
  /\ [][/\ \A j \in Jobs : JobReturned(j) => JobReturned(j)'
        /\ \A j \in Jobs :
             (JobStarted(j) /\ ~JobReturned(j) /\ JobReturned(j)')
             => /\ lastEvent' \in TerminalEvents
                /\ currentJob' # j
                /\ \A i \in 1..Len(runningJobs') : runningJobs'[i] # j
        /\ lastEvent' \in TerminalEvents
           => Cardinality({j \in Jobs : ~JobReturned(j) /\ JobReturned(j)'}) = 1]_vars
  /\ \A j \in Jobs : JobStarted(j) ~> JobReturned(j)

\* both jobs started and returned, the second one with jobFailed after a
\* stopAllJobs took currentJob from it, or with jobCompleted
C37_Witness ==
  /\ \A j \in Jobs : JobStarted(j) /\ JobReturned(j)
  /\ lastEvent \in TerminalEvents

\* C38: once stop() has been answered, as long as no further control call is
\* made, a verification tick or a write that is executed leaves the timer
\* disarmed, and a write executed then persists enabled = false.
C38_StopHolds ==
  [][(/\ response = "Scheduler stopped successfully"
      /\ \/ VerifyTick
         \/ \E s \in saves : SaveLands(s))
     => /\ ~scheduledTask'
        /\ dbState' # dbState => ~dbState'.enabled]_vars

\* C39: at every instant at most one cron task is running, and it is the one
\* scheduledTask refers to: none is running while scheduledTask is null, over
\* every interleaving of start, updateSettings, initialize, verification ticks,
\* stop, stopAll and shutdown.
C39_OneTimer ==
  liveTasks = (IF scheduledTask THEN 1 ELSE 0)

\* updateSettings has gone through startScheduler and the timer is armed on
\* interval 6
C39_Witness ==
  /\ response = "Settings updated successfully"
  /\ lastEvent = "schedulerStarted"
  /\ scheduledTask
  /\ liveTasks = 1
  /\ cronExpression = 6

\* C40: the statistics a job hands to its jobCompleted event describe the
\* outcome list the event carries: stats.successful is the number of successful
\* outcomes in the job's results and stats.totalRequests is their number.
C40_StatsOfOwnResults ==
  [][\A j \in Jobs :
       (JobCompleted(j) /\ lastEvent' = "jobCompleted")
       => /\ FinalStats(j).successful = CountSuccess(run[j].results)
          /\ FinalStats(j).totalRequests = Len(run[j].results)]_vars

====
